---- MODULE Spec2Model ----
(***************************************************************************)
(* A model of the octree of lore (Spice/Octree) and of the part of         *)
(* OctreeHelper that drives it.  Coordinates are integers: every           *)
(* coordinate of the model is the real coordinate on a grid fine enough    *)
(* that all the halvings build performs down to frame MaxFrames are exact. *)
(* Location codes are JavaScript int32 values; shifts wrap at 32 bits.     *)
(***************************************************************************)
EXTENDS Integers, Sequences, FiniteSets, TLC

VARIABLES
  threshold,   \* Octree.threshold
  maxDepth,    \* Octree.maxDepth
  points,      \* Octree.points : location code -> index list or Null
  aabbs,       \* Octree.aabbs  : location code -> AABB
  vertices,    \* the caller's vertex buffer, a sequence of <<x, y, z>>
  rootBox,     \* the caller's root AABB handed to build
  raycaster,   \* OctreeHelper.raycaster : [threshold, near, far]
  target,      \* OctreeHelper.target, the point cloud : [pointScale, cutoff, blue]
  phase,       \* "new" | "built" | "error" (build threw a RangeError)
  calls,       \* history: the build(...) invocations of the last build
  clone,       \* the octrees Octree.clone(original) returned so far (at most one)
  controls,    \* the renderer's ControlsBase : [listeners, dispatch]
  helper,      \* the OctreeHelper : [selected, hovered, multiSelect, destructed]
  op,          \* name of the last operation run
  ret          \* what the last operation returned

vars == <<threshold, maxDepth, points, aabbs, vertices, rootBox, raycaster, target,
          phase, calls, clone, controls, helper, op, ret>>

\* what a query leaves alone: the octree, its inputs and the helper's settings
queryFrame == <<threshold, maxDepth, points, aabbs, vertices, rootBox, raycaster, target,
           phase, calls, clone, controls, helper>>

Null == "null"

\* the value of a variable that stands for an object the behaviours at hand
\* do not construct
Absent == [absent |-> TRUE]

----------------------------------------------------------------------------
(* Bounds *)

\* deepest build/traverse frame followed; a deeper call is the engine's
\* RangeError (call stack exhausted).  The root radius is 2^MaxFrames so
\* that every box down to that frame has integer centre and radius.
MaxFrames == 13
\* most vertices in the vertex buffer
MaxPoints == 3

DefaultThreshold == 500
DefaultMaxDepth == 8

----------------------------------------------------------------------------
(* int32 arithmetic of location codes *)

Two28 == 2^28
Two29 == 2^29
Two30 == 2^30

\* Utils.msb(n): index of the highest set bit of the 32-bit pattern, -1 for 0
RECURSIVE msbPos(_, _)
msbPos(n, k) == IF n < 2 THEN k ELSE msbPos(n \div 2, k + 1)

msb(n) == IF n = 0 THEN -1 ELSE IF n < 0 THEN 31 ELSE msbPos(n, 0)

\* n << 3 on an int32: the low 29 bits move up, the result is read signed
Shl3(n) ==
  LET lo == n % Two29
  IN  IF lo < Two28 THEN lo * 8 ELSE (lo - Two29) * 8

\* n >>> 3: the 32-bit pattern read unsigned, shifted right
Shr3(n) == IF n >= 0 THEN n \div 8 ELSE ((n + Two30) + Two30) \div 8 + Two28

getDepthTimes3(locCode) == msb(locCode)

generateLocCode(parentCode, nodeCode) ==
  IF msb(parentCode) = -1 THEN nodeCode + 8 ELSE Shl3(parentCode) + nodeCode

getParent(locCode) == Shr3(locCode)

\* locCode << 3 | i as written in traverse, traverseIf and the box searches
ChildCode(locCode, i) == Shl3(locCode) + i

----------------------------------------------------------------------------
(* Maps keyed by location code *)

Put(f, k, v) == [x \in (DOMAIN f) \cup {k} |-> IF x = k THEN v ELSE f[x]]

EmptyMap == [x \in {} |-> Null]

Has(f, k) == k \in DOMAIN f

\* vertices[3 * index + axis], index counted from 0 as in the source
Coord(verts, index, axis) == verts[index + 1][axis]

----------------------------------------------------------------------------
(* AABB *)

Box(center, radius) == [center |-> center, radius |-> radius, locCode |-> 0]

setLocCode(aabb, locCode) == [aabb EXCEPT !.locCode = locCode]

BoxMin(aabb, axis) == aabb.center[axis] - aabb.radius
BoxMax(aabb, axis) == aabb.center[axis] + aabb.radius

\* the offsets with the bits of x and z exchanged
OffsetSignSwapped(i, axis) ==
  IF axis = 3 THEN (IF i \div 4 = 1 THEN 1 ELSE -1)
  ELSE IF axis = 2 THEN (IF (i \div 2) % 2 = 1 THEN 1 ELSE -1)
  ELSE (IF i % 2 = 1 THEN 1 ELSE -1)

\* Octree.offsets[i] scaled by 2: the sign of each axis for octant i
OffsetSign(i, axis) ==
  IF axis = 1 THEN (IF i \div 4 = 1 THEN 1 ELSE -1)
  ELSE IF axis = 2 THEN (IF (i \div 2) % 2 = 1 THEN 1 ELSE -1)
  ELSE (IF i % 2 = 1 THEN 1 ELSE -1)

\* new AABB(center + offsets[i] * radius, 0.5 * radius)
ChildBox(aabb, i) ==
  Box([axis \in 1..3 |-> aabb.center[axis] + OffsetSign(i, axis) * (aabb.radius \div 2)],
      aabb.radius \div 2)

----------------------------------------------------------------------------
(* Octree.build *)

\* the classification of lines 80-82 with > for >=
OctantOfStrict(verts, index, aabb) ==
    (IF Coord(verts, index, 1) > aabb.center[1] THEN 4 ELSE 0)
  + (IF Coord(verts, index, 2) > aabb.center[2] THEN 2 ELSE 0)
  + (IF Coord(verts, index, 3) > aabb.center[3] THEN 1 ELSE 0)

\* the 3-bit octant code of a vertex relative to the centre of aabb
OctantOf(verts, index, aabb) ==
    (IF Coord(verts, index, 1) >= aabb.center[1] THEN 4 ELSE 0)
  + (IF Coord(verts, index, 2) >= aabb.center[2] THEN 2 ELSE 0)
  + (IF Coord(verts, index, 3) >= aabb.center[3] THEN 1 ELSE 0)

RECURSIVE SelectOctant(_, _, _, _)
SelectOctant(verts, pointIndices, aabb, i) ==
  IF pointIndices = <<>> THEN <<>>
  ELSE LET rest == SelectOctant(verts, Tail(pointIndices), aabb, i)
       IN  IF OctantOf(verts, Head(pointIndices), aabb) = i
           THEN <<Head(pointIndices)>> \o rest
           ELSE rest

\* the depth test of line 60 with > for >=
IsTerminalDepthStrict(pointIndices, locCode, thr, maxD) ==
  Len(pointIndices) <= thr \/ getDepthTimes3(locCode) > 3 * maxD

\* the size test of line 60 with < for <=
IsTerminalCountStrict(pointIndices, locCode, thr, maxD) ==
  Len(pointIndices) < thr \/ getDepthTimes3(locCode) >= 3 * maxD

IsTerminal(pointIndices, locCode, thr, maxD) ==
  Len(pointIndices) <= thr \/ getDepthTimes3(locCode) >= 3 * maxD

\* st = [points, aabbs, calls, thrown]; calls records each invocation with the
\* code of the invoking node as parent ({} at the root); thrown once a call lies deeper than
\* MaxFrames, after which the exception unwinds and nothing more is written
RECURSIVE BuildNode(_, _, _, _, _, _, _, _, _, _)
RECURSIVE BuildChildren(_, _, _, _, _, _, _, _, _, _)

BuildNode(st, verts, thr, maxD, pointIndices, aabb, locCode, parent, path, frame) ==
  IF st.thrown THEN st
  ELSE IF frame > MaxFrames THEN [st EXCEPT !.thrown = TRUE]
  ELSE
    LET box == setLocCode(aabb, locCode)
        st1 == [st EXCEPT !.points = Put(@, locCode, Null),
                          !.aabbs = Put(@, locCode, box),
                          !.calls = Append(@, [path |-> path, locCode |-> locCode,
                                               parent |-> parent,
                                               n |-> Len(pointIndices)])]
    IN  IF IsTerminal(pointIndices, locCode, thr, maxD)
        THEN [st1 EXCEPT !.points = Put(@, locCode, pointIndices)]
        ELSE BuildChildren(st1, verts, thr, maxD, pointIndices, box, locCode, path, frame, 0)

BuildChildren(st, verts, thr, maxD, pointIndices, aabb, locCode, path, frame, i) ==
  IF i > 7 \/ st.thrown THEN st
  ELSE
    LET nextPoints == SelectOctant(verts, pointIndices, aabb, i)
        st1 == IF nextPoints = <<>> THEN st
               ELSE BuildNode(st, verts, thr, maxD, nextPoints, ChildBox(aabb, i),
                              generateLocCode(locCode, i), {locCode}, Append(path, i),
                              frame + 1)
    IN  BuildChildren(st1, verts, thr, maxD, pointIndices, aabb, locCode, path, frame, i + 1)

\* build(pointIndices, vertices, aabb) on the maps the instance holds
BuildResult(pts, boxes, verts, thr, maxD, pointIndices, aabb) ==
  BuildNode([points |-> pts, aabbs |-> boxes, calls |-> <<>>, thrown |-> FALSE],
            verts, thr, maxD, pointIndices, aabb, 1, {}, <<>>, 0)

\* the index buffer 0 .. n-1
RECURSIVE Iota(_)
Iota(n) == IF n = 0 THEN <<>> ELSE Append(Iota(n - 1), n - 1)

----------------------------------------------------------------------------
(* Inputs of the build specification *)

RootRadius == 2^MaxFrames
\* one thousandth-and-twenty-fourth of the root radius: the grid of the sites
Unit == RootRadius \div 1024

Site(a, b, c) == <<a * Unit, b * Unit, c * Unit>>

\* positions the vertex buffer is drawn from: two pairs that stay in one
\* octant for ten levels, and two isolated points
Sites ==
  { Site(-1024, -1024, -1024), Site(-1024, -1024, -1023),
    Site(-1023, -1023, -1021), Site(-1024, -1024, -1022),
    Site(512, 512, 512), Site(-512, 512, -512) }

ThresholdArgs == {0, 1, 2}
MaxDepthArgs == {0, 1, 2, 10, 11}

RECURSIVE SeqsUpTo(_, _)
SeqsUpTo(S, n) ==
  IF n = 0 THEN {<<>>}
  ELSE LET shorter == SeqsUpTo(S, n - 1)
       IN  shorter \cup {Append(s, x) : s \in {t \in shorter : Len(t) = n - 1}, x \in S}

\* constructor(threshold, maxDepth)
Construct(thrArg, maxDArg) ==
  /\ threshold = (IF thrArg = 0 THEN DefaultThreshold ELSE thrArg)
  /\ maxDepth = (IF maxDArg = 0 THEN DefaultMaxDepth ELSE maxDArg)
  /\ points = EmptyMap
  /\ aabbs = EmptyMap

\* new Raycaster(1.0) and a point cloud drawn at scale 1, nothing cut off,
\* every vertex visible (blue channel of its colour above 0)
NewRaycaster == [threshold |-> 1, near |-> 0, far |-> 4 * RootRadius]
NewTarget(n) == [pointScale |-> 1, cutoff |-> 0, blue |-> [i \in 1..n |-> 1]]

Init ==
  /\ \E t \in ThresholdArgs, d \in MaxDepthArgs : Construct(t, d)
  /\ vertices \in SeqsUpTo(Sites, MaxPoints)
  /\ rootBox = Box(<<0, 0, 0>>, RootRadius)
  /\ raycaster = NewRaycaster
  /\ target = NewTarget(Len(vertices))
  /\ phase = "new"
  /\ calls = <<>>
  /\ op = "constructor"
  /\ ret = Null
  /\ clone = <<>>
  /\ controls = Absent
  /\ helper = Absent

----------------------------------------------------------------------------
(* Operations *)

\* build working on a copy of the box it is handed
CallerBoxCopied(aabb, locCode) == aabb

\* the caller's box object after build(pointIndices, vertices, aabb):
\* aabb.setLocCode(locCode) acts on the object passed in, which is then
\* stored in the box map as it is
CallerBox(aabb, locCode) == setLocCode(aabb, locCode)

Build ==
  /\ phase = "new"
  /\ LET r == BuildResult(points, aabbs, vertices, threshold, maxDepth,
                          Iota(Len(vertices)), rootBox)
     IN  /\ points' = r.points
         /\ aabbs' = r.aabbs
         /\ calls' = r.calls
         /\ phase' = IF r.thrown THEN "error" ELSE "built"
  /\ rootBox' = CallerBox(rootBox, 1)
  /\ op' = "build"
  /\ ret' = Null
  /\ UNCHANGED <<threshold, maxDepth, vertices, raycaster, target, clone, controls, helper>>

\* Queries only read the tree and each starts from the tree as build left
\* it: a query after another query reaches no state a query after build does not.
TreeReady == phase = "built" /\ op \in {"build", "setThreshold"}

----------------------------------------------------------------------------
(* Octree.traverse and Octree.getLocCodes *)

getLocCodes(boxes) == DOMAIN boxes

\* acc = [visited, thrown]: the location codes handed to the callback, in
\* order.  A recursion deeper than the number of boxes has some box twice
\* on its stack and so never returns: the engine's RangeError.
RECURSIVE TraverseFrom(_, _, _, _)
RECURSIVE TraverseChildren(_, _, _, _, _)

TraverseFrom(acc, boxes, locCode, frame) ==
  IF acc.thrown THEN acc
  ELSE IF frame > Cardinality(DOMAIN boxes) THEN [acc EXCEPT !.thrown = TRUE]
  ELSE TraverseChildren(acc, boxes, locCode, frame, 0)

TraverseChildren(acc, boxes, locCode, frame, i) ==
  IF i > 7 \/ acc.thrown THEN acc
  ELSE
    LET next == ChildCode(locCode, i)
        acc1 == IF Has(boxes, next)
                THEN TraverseFrom([acc EXCEPT !.visited = Append(@, next)],
                                  boxes, next, frame + 1)
                ELSE acc
    IN  TraverseChildren(acc1, boxes, locCode, frame, i + 1)

traverse(boxes) == TraverseFrom([visited |-> <<>>, thrown |-> FALSE], boxes, 1, 0)

Range(s) == {s[i] : i \in DOMAIN s}

Traverse ==
  /\ TreeReady
  /\ op' = "traverse"
  /\ ret' = traverse(aabbs)
  /\ UNCHANGED queryFrame

----------------------------------------------------------------------------
(* Properties of build *)

RECURSIVE CountIn(_, _)
CountIn(x, s) ==
  IF s = <<>> THEN 0 ELSE (IF Head(s) = x THEN 1 ELSE 0) + CountIn(x, Tail(s))

LeafCodes(pts) == {c \in DOMAIN pts : pts[c] # Null}

RECURSIVE SumOver(_, _, _)
SumOver(x, pts, codes) ==
  IF codes = {} THEN 0
  ELSE LET c == CHOOSE c \in codes : TRUE
       IN  CountIn(x, pts[c]) + SumOver(x, pts, codes \ {c})

\* how many times index x is stored in the point map
Stored(x, pts) == SumOver(x, pts, LeafCodes(pts))

StoredIndices(pts) == UNION {Range(pts[c]) : c \in LeafCodes(pts)}

InputIndices == 0 .. (Len(vertices) - 1)

\* C1: after build every input index is stored in exactly one node, exactly
\* once, and nothing else is stored
C1_ExactlyOnce ==
  phase = "built" =>
    /\ \A x \in InputIndices : Stored(x, points) = 1
    /\ StoredIndices(points) \subseteq InputIndices

\* C2: after build every node's depth (msb / 3) is at most maxDepth, and a
\* node at depth maxDepth is a leaf: it has a point list and build made no
\* child of it
C2_DepthBounded ==
  phase = "built" =>
    \A c \in DOMAIN aabbs :
      /\ getDepthTimes3(c) <= 3 * maxDepth
      /\ getDepthTimes3(c) = 3 * maxDepth =>
           /\ points[c] # Null
           /\ \A k \in DOMAIN calls : c \notin calls[k].parent

C2_Witness ==
  /\ TreeReady
  /\ \E c \in DOMAIN aabbs :
       /\ getDepthTimes3(c) = 3 * maxDepth
       /\ points[c] # Null
       /\ Len(points[c]) > threshold

\* C3: after build a leaf above maxDepth holds at most threshold indices, and
\* a node built with more than threshold points above maxDepth keeps a null
\* point list
C3_LeafSize ==
  phase = "built" =>
    /\ \A c \in LeafCodes(points) :
         getDepthTimes3(c) < 3 * maxDepth => Len(points[c]) <= threshold
    /\ \A k \in DOMAIN calls :
         (calls[k].n > threshold /\ getDepthTimes3(calls[k].locCode) < 3 * maxDepth)
           => points[calls[k].locCode] = Null

\* C4: the location codes traverse hands to its callback are exactly the
\* keys of the box map
C4_TraverseVisitsAll ==
  (phase = "built" /\ op = "traverse") =>
    /\ ~ret.thrown
    /\ Range(ret.visited) = getLocCodes(aabbs)

\* C6: nodes reached by different selector paths have different location codes
C6_CodesUnique ==
  phase = "built" =>
    \A j, k \in DOMAIN calls :
      calls[j].path # calls[k].path => calls[j].locCode # calls[k].locCode

LastCall(locCode) ==
  CHOOSE k \in DOMAIN calls :
    /\ calls[k].locCode = locCode
    /\ \A j \in DOMAIN calls : j > k => calls[j].locCode # locCode

----------------------------------------------------------------------------
(* generateLocCode and getParent on their own *)

\* the code of the node reached from the root by d selectors, all equal to sel
RECURSIVE PathCode(_, _)
PathCode(d, sel) == IF d = 0 THEN 1 ELSE generateLocCode(PathCode(d - 1, sel), sel)

\* location codes an int32 holds: the sentinel bit at 0, 3, ..., 30
ParentCodes == {PathCode(d, sel) : d \in 0..10, sel \in {0, 5}}

IsLocCode(c) == c > 0 /\ msb(c) % 3 = 0

InitLoc ==
  /\ Construct(0, 0)
  /\ vertices = <<>>
  /\ rootBox = Box(<<0, 0, 0>>, RootRadius)
  /\ raycaster = NewRaycaster
  /\ target = NewTarget(0)
  /\ phase = "new"
  /\ calls = <<>>
  /\ op = "constructor"
  /\ ret = Null
  /\ clone = <<>>
  /\ controls = Absent
  /\ helper = Absent

GenerateLocCode ==
  /\ \E parentCode \in ParentCodes, nodeCode \in 0..7 :
       ret' = [parentCode |-> parentCode, nodeCode |-> nodeCode,
               locCode |-> generateLocCode(parentCode, nodeCode)]
  /\ op' = "generateLocCode"
  /\ UNCHANGED queryFrame

GetParent ==
  /\ op = "generateLocCode"
  /\ op' = "getParent"
  /\ ret' = [parentCode |-> ret.parentCode, nodeCode |-> ret.nodeCode,
             locCode |-> ret.locCode, parent |-> getParent(ret.locCode)]
  /\ UNCHANGED queryFrame

NextLoc == GenerateLocCode \/ GetParent

SpecLoc == InitLoc /\ [][NextLoc]_vars

\* C5: getParent(generateLocCode(parent, child)) = parent for every parent
\* location code and every child selector
C5_RoundTrip ==
  (op = "getParent" /\ IsLocCode(ret.parentCode)) => ret.parent = ret.parentCode

----------------------------------------------------------------------------
(* AABB distances *)

Sq(x) == x * x

Max2(a, b) == IF a >= b THEN a ELSE b
Min2(a, b) == IF a <= b THEN a ELSE b

\* distance along one axis from the interval [lo, hi] to p, 0 inside
AxisGap(lo, hi, p) == Max2(Max2(lo - p, p - hi), 0)

\* AABB.distanceToPointSq(x, y, z): from the nearest point of the box
distanceToPointSq(aabb, p) ==
    Sq(AxisGap(BoxMin(aabb, 1), BoxMax(aabb, 1), p[1]))
  + Sq(AxisGap(BoxMin(aabb, 2), BoxMax(aabb, 2), p[2]))
  + Sq(AxisGap(BoxMin(aabb, 3), BoxMax(aabb, 3), p[3]))

\* AABB.distanceFromCenterToPointSq(x, y, z)
distanceFromCenterToPointSq(aabb, p) ==
  Sq(aabb.center[1] - p[1]) + Sq(aabb.center[2] - p[2]) + Sq(aabb.center[3] - p[3])

\* squared distance between two positions
DistSq(p, q) == Sq(p[1] - q[1]) + Sq(p[2] - q[2]) + Sq(p[3] - q[3])

----------------------------------------------------------------------------
(* Octree.getClosestBox, getClosestBoxFromCenter, getFarthestBox *)

\* Number.MAX_VALUE: above every distance of the model
NumberMaxValue == 2^30
\* Number.MIN_VALUE, the least positive double: on integer distances
\* dist > Number.MIN_VALUE is dist > 0
NumberMinValue == 0

RangeError == "RangeError"

\* "Continue if under threshold"
UnderThreshold(pts, next, thr) == pts[next] # Null /\ Len(pts[next]) < thr

\* the loop over the eight children; best = [code, dist], code -1 for none
RECURSIVE ScanClosest(_, _, _, _, _, _, _)
ScanClosest(pts, boxes, p, thr, locCode, i, best) ==
  IF i > 7 THEN best
  ELSE
    LET next == ChildCode(locCode, i)
        dist == distanceToPointSq(boxes[next], p)
        best1 == IF Has(boxes, next) /\ ~UnderThreshold(pts, next, thr) /\ dist < best.dist
                 THEN [code |-> next, dist |-> dist]
                 ELSE best
    IN  ScanClosest(pts, boxes, p, thr, locCode, i + 1, best1)

RECURSIVE ScanClosestFromCenter(_, _, _, _, _, _, _)
ScanClosestFromCenter(pts, boxes, p, thr, locCode, i, best) ==
  IF i > 7 THEN best
  ELSE
    LET next == ChildCode(locCode, i)
        dist == distanceFromCenterToPointSq(boxes[next], p)
        best1 == IF Has(boxes, next) /\ ~UnderThreshold(pts, next, thr) /\ dist < best.dist
                 THEN [code |-> next, dist |-> dist]
                 ELSE best
    IN  ScanClosestFromCenter(pts, boxes, p, thr, locCode, i + 1, best1)

RECURSIVE ScanFarthest(_, _, _, _, _, _, _)
ScanFarthest(pts, boxes, p, thr, locCode, i, best) ==
  IF i > 7 THEN best
  ELSE
    LET next == ChildCode(locCode, i)
        dist == distanceToPointSq(boxes[next], p)
        best1 == IF Has(boxes, next) /\ ~UnderThreshold(pts, next, thr) /\ dist > best.dist
                 THEN [code |-> next, dist |-> dist]
                 ELSE best
    IN  ScanFarthest(pts, boxes, p, thr, locCode, i + 1, best1)

\* a descent longer than the number of boxes revisits a box and never ends
RECURSIVE ClosestBoxFrom(_, _, _, _, _, _)
ClosestBoxFrom(pts, boxes, p, thr, locCode, depth) ==
  IF depth > Cardinality(DOMAIN boxes) THEN RangeError
  ELSE
    LET best == ScanClosest(pts, boxes, p, thr, locCode, 0,
                            [code |-> -1, dist |-> NumberMaxValue])
    IN  IF best.code < 0 THEN boxes[locCode]
        ELSE ClosestBoxFrom(pts, boxes, p, thr, best.code, depth + 1)

getClosestBox(pts, boxes, p, thr, locCode) == ClosestBoxFrom(pts, boxes, p, thr, locCode, 0)

getClosestBoxFromCenter(pts, boxes, p, thr, locCode) ==
  LET best == ScanClosestFromCenter(pts, boxes, p, thr, locCode, 0,
                                    [code |-> -1, dist |-> NumberMaxValue])
  IN  IF best.code < 0 THEN boxes[locCode]
      ELSE ClosestBoxFrom(pts, boxes, p, thr, best.code, 1)

RECURSIVE FarthestBoxFrom(_, _, _, _, _, _)
FarthestBoxFrom(pts, boxes, p, thr, locCode, depth) ==
  IF depth > Cardinality(DOMAIN boxes) THEN RangeError
  ELSE
    LET best == ScanFarthest(pts, boxes, p, thr, locCode, 0,
                             [code |-> -1, dist |-> NumberMinValue])
    IN  IF best.code < 0 THEN boxes[locCode]
        ELSE FarthestBoxFrom(pts, boxes, p, thr, best.code, depth + 1)

\* what this.aabbs[undefined] evaluates to
Undefined == [undefined |-> TRUE]

\* getFarthestBox(point, threshold, locCode): the parameter has no default.
\* locCodeArg is {} when the argument is left out, and then locCode is
\* undefined: undefined << 3 | i is i, and with no box found among the codes
\* 0..7 the call returns this.aabbs[undefined].
getFarthestBox(pts, boxes, p, thr, locCodeArg) ==
  IF locCodeArg = {}
  THEN LET best == ScanFarthest(pts, boxes, p, thr, 0, 0,
                                [code |-> -1, dist |-> NumberMinValue])
       IN  IF best.code < 0 THEN Undefined
           ELSE FarthestBoxFrom(pts, boxes, p, thr, best.code, 1)
  ELSE FarthestBoxFrom(pts, boxes, p, thr, CHOOSE c \in locCodeArg : TRUE, 0)

----------------------------------------------------------------------------
(* Inputs of the query specifications: a root cube of radius 8 *)

QueryRootRadius == 2^3

QuerySites ==
  { <<-7, -7, -7>>, <<-5, -5, -5>>, <<0, 0, 0>>, <<1, 1, 1>>, <<5, 5, 5>>, <<1, -3, 5>> }

\* the sites, a point between two of them, and a point nearer to the box but
\* farther from the centre of one depth-2 cell than of its diagonal sibling
QueryPoints == QuerySites \cup {<<-1, -1, -1>>, <<7, 2, 2>>}

QueryThresholdArgs == {1, 2}
QueryMaxDepthArgs == {1, 2, 3}

\* minimum-points thresholds handed to the box searches
BoxThresholds == {0, 2}

InitQuery ==
  /\ \E t \in QueryThresholdArgs, d \in QueryMaxDepthArgs : Construct(t, d)
  /\ vertices \in SeqsUpTo(QuerySites, MaxPoints)
  /\ rootBox = Box(<<0, 0, 0>>, QueryRootRadius)
  /\ raycaster = NewRaycaster
  /\ target = NewTarget(Len(vertices))
  /\ phase = "new"
  /\ calls = <<>>
  /\ op = "constructor"
  /\ ret = Null
  /\ clone = <<>>
  /\ controls = Absent
  /\ helper = Absent

GetClosestBox ==
  /\ TreeReady
  /\ \E p \in QueryPoints, thr \in BoxThresholds :
       ret' = [point |-> p, threshold |-> thr,
               box |-> getClosestBox(points, aabbs, p, thr, 1)]
  /\ op' = "getClosestBox"
  /\ UNCHANGED queryFrame

GetClosestBoxFromCenter ==
  /\ TreeReady
  /\ \E p \in QueryPoints, thr \in BoxThresholds :
       ret' = [point |-> p, threshold |-> thr,
               box |-> getClosestBoxFromCenter(points, aabbs, p, thr, 1)]
  /\ op' = "getClosestBoxFromCenter"
  /\ UNCHANGED queryFrame

GetFarthestBox ==
  /\ TreeReady
  /\ \E p \in QueryPoints, thr \in BoxThresholds, locCodeArg \in {{}, {1}} :
       ret' = [point |-> p, threshold |-> thr, locCode |-> locCodeArg,
               box |-> getFarthestBox(points, aabbs, p, thr, locCodeArg)]
  /\ op' = "getFarthestBox"
  /\ UNCHANGED queryFrame

NextBox == Build \/ GetClosestBox \/ GetClosestBoxFromCenter \/ GetFarthestBox

SpecBox == InitQuery /\ [][NextBox]_vars

\* C8: with threshold 0, getClosestBox returns a leaf box at the least
\* distanceToPointSq over all leaf boxes, and getFarthestBox from the root a
\* leaf box at the greatest
C8_BoxSearchMatchesBruteForce ==
  /\ (op = "getClosestBox" /\ ret.threshold = 0) =>
       /\ ret.box.locCode \in LeafCodes(points)
       /\ \A c \in LeafCodes(points) :
            distanceToPointSq(ret.box, ret.point) <= distanceToPointSq(aabbs[c], ret.point)
  /\ (op = "getFarthestBox" /\ ret.threshold = 0 /\ ret.locCode = {1}) =>
       /\ ret.box.locCode \in LeafCodes(points)
       /\ \A c \in LeafCodes(points) :
            distanceToPointSq(ret.box, ret.point) >= distanceToPointSq(aabbs[c], ret.point)

\* C25: the box getClosestBox returns belongs to a node that has a point list
\* and whose point list holds at least threshold points
C25_ClosestBoxThreshold ==
  op = "getClosestBox" =>
    /\ points[ret.box.locCode] # Null
    /\ Len(points[ret.box.locCode]) >= ret.threshold

\* locCode and the codes of its ancestors below the root
RECURSIVE DescentCodes(_)
DescentCodes(locCode) ==
  IF locCode <= 1 THEN {} ELSE {locCode} \cup DescentCodes(getParent(locCode))

\* the children of locCode a box search with threshold thr does not skip
EligibleChildren(locCode, thr) ==
  {ChildCode(locCode, i) : i \in 0..7} \cap
    {c \in DOMAIN aabbs : ~UnderThreshold(points, c, thr)}

\* C19: every box on the way from the root to the box getClosestBoxFromCenter
\* returns is, among the children of its parent that are not skipped, one
\* at the least distanceFromCenterToPointSq from the query
C19_CenterDescent ==
  op = "getClosestBoxFromCenter" =>
    \A c \in DescentCodes(ret.box.locCode) :
      \A sibling \in EligibleChildren(getParent(c), ret.threshold) :
        distanceFromCenterToPointSq(aabbs[c], ret.point)
          <= distanceFromCenterToPointSq(aabbs[sibling], ret.point)

----------------------------------------------------------------------------
(* Octree.getClosestPoint and Octree.getFarthestPoint.  A result is <<>>   *)
(* for null and <<position>> for a Vector3f.                               *)

TypeError == "TypeError"

Position(verts, index) == verts[index + 1]

\* the loop of lines 433-452; best = [dist, result]
RECURSIVE ScanClosestPoint(_, _, _, _, _)
ScanClosestPoint(verts, boxPoints, p, i, best) ==
  IF i > Len(boxPoints) THEN best
  ELSE LET position == Position(verts, boxPoints[i])
           distSq == DistSq(p, position)
       IN  ScanClosestPoint(verts, boxPoints, p, i + 1,
                            IF distSq < best.dist
                            THEN [dist |-> distSq, result |-> <<position>>]
                            ELSE best)

\* the loop of lines 489-508
RECURSIVE ScanFarthestPoint(_, _, _, _, _)
ScanFarthestPoint(verts, boxPoints, p, i, best) ==
  IF i > Len(boxPoints) THEN best
  ELSE LET position == Position(verts, boxPoints[i])
           distSq == DistSq(p, position)
       IN  ScanFarthestPoint(verts, boxPoints, p, i + 1,
                             IF distSq > best.dist
                             THEN [dist |-> distSq, result |-> <<position>>]
                             ELSE best)

\* `if (locCode)`: the argument is given and is not 0
Truthy(locCodeArg) == locCodeArg # {} /\ locCodeArg # {0}

\* getClosestPoint(point, positions, threshold, locCode)
getClosestPoint(pts, boxes, verts, p, thr, locCodeArg) ==
  LET box == IF Truthy(locCodeArg)
             THEN LET c == CHOOSE c \in locCodeArg : TRUE
                  IN  IF Has(boxes, c) THEN boxes[c] ELSE Undefined
             ELSE getClosestBox(pts, boxes, p, thr, 1)
  IN  IF box = Undefined THEN [thrown |-> TypeError, result |-> <<>>]
      ELSE IF ~Has(pts, box.locCode) \/ pts[box.locCode] = Null
           THEN [thrown |-> "none", result |-> <<>>]
      ELSE [thrown |-> "none",
            result |-> ScanClosestPoint(verts, pts[box.locCode], p, 1,
                                        [dist |-> NumberMaxValue, result |-> <<>>]).result]

\* getFarthestPoint(point, positions, threshold, locCode)
getFarthestPoint(pts, boxes, verts, p, thr, locCodeArg) ==
  LET box == IF Truthy(locCodeArg)
             THEN LET c == CHOOSE c \in locCodeArg : TRUE
                  IN  IF Has(boxes, c) THEN boxes[c] ELSE Undefined
             ELSE getFarthestBox(pts, boxes, p, thr, {})
  IN  IF box = Undefined THEN [thrown |-> TypeError, result |-> <<>>]
      ELSE IF ~Has(pts, box.locCode) \/ pts[box.locCode] = Null
           THEN [thrown |-> "none", result |-> <<>>]
      ELSE [thrown |-> "none",
            result |-> ScanFarthestPoint(verts, pts[box.locCode], p, 1,
                                         [dist |-> NumberMinValue, result |-> <<>>]).result]

\* the locCode argument of a point search: left out, or a node of the tree
LocCodeArgs == {{}} \cup {{c} : c \in DOMAIN aabbs}

GetClosestPoint ==
  /\ TreeReady
  /\ \E p \in QueryPoints, thr \in BoxThresholds, locCodeArg \in LocCodeArgs :
       LET r == getClosestPoint(points, aabbs, vertices, p, thr, locCodeArg)
       IN  ret' = [point |-> p, threshold |-> thr, locCode |-> locCodeArg,
                   thrown |-> r.thrown, result |-> r.result]
  /\ op' = "getClosestPoint"
  /\ UNCHANGED queryFrame

GetFarthestPoint ==
  /\ TreeReady
  /\ \E p \in QueryPoints, thr \in BoxThresholds, locCodeArg \in LocCodeArgs :
       LET r == getFarthestPoint(points, aabbs, vertices, p, thr, locCodeArg)
       IN  ret' = [point |-> p, threshold |-> thr, locCode |-> locCodeArg,
                   thrown |-> r.thrown, result |-> r.result]
  /\ op' = "getFarthestPoint"
  /\ UNCHANGED queryFrame

NextPoint == Build \/ GetFarthestBox \/ GetClosestPoint \/ GetFarthestPoint

SpecPoint == InitQuery /\ [][NextPoint]_vars

\* the positions of the points the node of locCode holds
PositionsOf(locCode) ==
  IF points[locCode] = Null THEN {}
  ELSE {Position(vertices, points[locCode][i]) : i \in DOMAIN points[locCode]}

\* C17: for a locCode of the tree, getClosestPoint returns a position of the
\* node at the least squared distance from the query and getFarthestPoint
\* one at the greatest; each returns null exactly when the node holds no
\* points
C17_PointSearchInNode ==
  /\ (op = "getClosestPoint" /\ ret.locCode # {}) =>
       \A c \in ret.locCode :
         /\ ret.thrown = "none"
         /\ ret.result = <<>> <=> PositionsOf(c) = {}
         /\ ret.result # <<>> =>
              /\ ret.result[1] \in PositionsOf(c)
              /\ \A q \in PositionsOf(c) :
                   DistSq(ret.point, ret.result[1]) <= DistSq(ret.point, q)
  /\ (op = "getFarthestPoint" /\ ret.locCode # {}) =>
       \A c \in ret.locCode :
         /\ ret.thrown = "none"
         /\ ret.result = <<>> <=> PositionsOf(c) = {}
         /\ ret.result # <<>> =>
              /\ ret.result[1] \in PositionsOf(c)
              /\ \A q \in PositionsOf(c) :
                   DistSq(ret.point, ret.result[1]) >= DistSq(ret.point, q)

\* C18: getFarthestBox called without a locCode returns a box of the tree,
\* and getFarthestPoint called without a locCode raises no error
C18_FarthestFromRoot ==
  /\ (op = "getFarthestBox" /\ ret.locCode = {}) =>
       \E c \in DOMAIN aabbs : ret.box = aabbs[c]
  /\ (op = "getFarthestPoint" /\ ret.locCode = {}) => ret.thrown = "none"

----------------------------------------------------------------------------
(* RadixSort.sort: ascending and stable.  The result holds the sorted keys  *)
(* (array) and, for each, its position in the input (indices); positions   *)
(* are 1-based here where the source's are 0-based.                        *)

\* insert position x into the sorted position list s, after every position
\* whose key is not greater (so equal keys keep their input order)
RECURSIVE InsertSorted(_, _, _)
InsertSorted(keys, s, x) ==
  IF s = <<>> THEN <<x>>
  ELSE IF keys[Head(s)] <= keys[x] THEN <<Head(s)>> \o InsertSorted(keys, Tail(s), x)
  ELSE <<x>> \o s

RECURSIVE SortedPositions(_, _)
SortedPositions(keys, n) ==
  IF n = 0 THEN <<>> ELSE InsertSorted(keys, SortedPositions(keys, n - 1), n)

RadixSort(keys) ==
  LET pos == SortedPositions(keys, Len(keys))
  IN  [array |-> [i \in 1..Len(keys) |-> keys[pos[i]]], indices |-> pos]

----------------------------------------------------------------------------
(* Octree.kNearestNeighbours and its helpers *)

\* pointDistancesSq(x, y, z, locCode, positions)
pointDistancesSq(pts, verts, p, locCode) ==
  [indices |-> pts[locCode],
   distancesSq |-> [i \in 1..Len(pts[locCode]) |->
                      DistSq(Position(verts, pts[locCode][i]), p)]]

RECURSIVE FilterCells(_, _, _)
FilterCells(pts, visited, locCode) ==
  IF visited = <<>> THEN <<>>
  ELSE LET code == Head(visited)
           rest == FilterCells(pts, Tail(visited), locCode)
       IN  IF pts[code] # Null /\ Len(pts[code]) > 0 /\ code # locCode
           THEN <<code>> \o rest
           ELSE rest

\* getCellDistancesToPoint(x, y, z, locCode)
getCellDistancesToPoint(pts, boxes, p, locCode) ==
  LET locCodes == FilterCells(pts, traverse(boxes).visited, locCode)
  IN  [locCodes |-> locCodes,
       distancesSq |-> [i \in 1..Len(locCodes) |-> distanceToPointSq(boxes[locCodes[i]], p)]]

\* Octree.mergePointDistances(a, b)
mergePointDistances(a, b) ==
  [indices |-> a.indices \o b.indices, distancesSq |-> a.distancesSq \o b.distancesSq]

\* x > arr[i] with i a 0-based index: false when arr[i] is undefined
GreaterThanAt(x, arr, i) == i + 1 <= Len(arr) /\ x > arr[i + 1]

\* indices[i] = v on a Uint32Array: a write past the end is dropped
SetAt(arr, i, v) == IF i + 1 <= Len(arr) THEN [arr EXCEPT ![i + 1] = v] ELSE arr

\* lines 594-604; st = [indices, indexCount, pointOffset]
RECURSIVE KnnFirstLoop(_, _, _, _, _, _)
KnnFirstLoop(st, k, pointDistances, sortedPoints, sortedCells, i) ==
  IF ~(st.indexCount < k /\ i < Len(sortedPoints.array)) THEN st
  ELSE IF GreaterThanAt(sortedPoints.array[i + 1], sortedCells.array, 0)
       THEN [st EXCEPT !.pointOffset = i]
  ELSE KnnFirstLoop([st EXCEPT !.indices = SetAt(@, i, pointDistances.indices[sortedPoints.indices[i + 1]]),
                               !.indexCount = @ + 1],
                    k, pointDistances, sortedPoints, sortedCells, i + 1)

\* lines 621-629, for the cell with 0-based rank i
RECURSIVE KnnInnerLoop(_, _, _, _, _, _, _)
KnnInnerLoop(st, k, pointDistances, sortedNew, sortedCells, i, j) ==
  IF ~(st.indexCount < k /\ j < Len(sortedNew.array)) THEN st
  ELSE IF GreaterThanAt(sortedNew.array[j + 1], sortedCells.array, i + 1)
       THEN [st EXCEPT !.pointOffset = j]
  ELSE KnnInnerLoop([st EXCEPT !.indices = SetAt(@, j, pointDistances.indices[sortedNew.indices[j + 1]]),
                               !.indexCount = @ + 1],
                    k, pointDistances, sortedNew, sortedCells, i, j + 1)

\* lines 611-638
RECURSIVE KnnCellLoop(_, _, _, _, _, _, _, _, _, _)
KnnCellLoop(st, pts, verts, p, k, length, pointDistances, cellDistances, sortedCells, i) ==
  IF ~(i < Len(sortedCells.array)) THEN st.indices
  ELSE
    LET locCode == cellDistances.locCodes[sortedCells.indices[i + 1]]
        merged == mergePointDistances(pointDistances, pointDistancesSq(pts, verts, p, locCode))
        sortedNew == RadixSort(merged.distancesSq)
        st1 == KnnInnerLoop(st, k, merged, sortedNew, sortedCells, i, st.pointOffset)
    IN  IF st1.indexCount = k \/ st1.indexCount >= length - 1
        THEN st1.indices
        ELSE KnnCellLoop(st1, pts, verts, p, k, length, merged, cellDistances,
                         sortedCells, i + 1)

ReferenceError == "ReferenceError"

\* the point argument: a vertex index or a coordinate object
Index(i) == [kind |-> "number", value |-> i]
Vertex(v) == [kind |-> "vertex", value |-> v]

\* !isNaN(parseFloat(point))
IsNumeric(point) == point.kind = "number"

\* lines 568-639, with p the query's coordinates
KnnSearch(pts, boxes, verts, kArg, p, locCodeArg) ==
  LET k == kArg + 1
      length == Len(verts)
      locCode == IF locCodeArg = {} THEN getClosestBoxFromCenter(pts, boxes, p, 0, 1).locCode
                 ELSE CHOOSE c \in locCodeArg : TRUE
  IN  IF pts[locCode] = Null THEN [thrown |-> TypeError, indices |-> <<>>]
      ELSE
        LET cellDistances == getCellDistancesToPoint(pts, boxes, p, locCode)
            pointDistances == pointDistancesSq(pts, verts, p, locCode)
            sortedPoints == RadixSort(pointDistances.distancesSq)
            sortedCells == RadixSort(cellDistances.distancesSq)
            st0 == [indices |-> [i \in 1..k |-> 0], indexCount |-> 0, pointOffset |-> 0]
            st1 == KnnFirstLoop(st0, k, pointDistances, sortedPoints, sortedCells, 0)
        IN  [thrown |-> "none",
             indices |-> IF st1.indexCount = k THEN st1.indices
                         ELSE KnnCellLoop(st1, pts, verts, p, k, length, pointDistances,
                                          cellDistances, sortedCells, 0)]

\* kNearestNeighbours(k, point, locCode, positions); locCodeArg is {} for
\* null or holds the location code.  For a numeric point the block-scoped
\* `let p` is read in its own initializer (positions[p * 3]), which throws
\* before any distance is computed.
kNearestNeighbours(pts, boxes, verts, kArg, point, locCodeArg) ==
  IF IsNumeric(point) THEN [thrown |-> ReferenceError, indices |-> <<>>]
  ELSE KnnSearch(pts, boxes, verts, kArg, point.value, locCodeArg)

\* the box contains the point (closed on every side)
Contains(aabb, p) ==
  \A axis \in 1..3 : BoxMin(aabb, axis) <= p[axis] /\ p[axis] <= BoxMax(aabb, axis)

\* most neighbours asked for
MaxK == 2

\* the locCode argument: null ({}) or the code of a leaf holding points whose
\* box contains the query point
\* the coordinates a point argument stands for
Coordinates(verts, point) ==
  IF IsNumeric(point) THEN Position(verts, point.value) ELSE point.value

\* the point arguments: a coordinate object or the index of a vertex
PointArgs ==
  {Vertex(v) : v \in QueryPoints} \cup {Index(i) : i \in 0..(Len(vertices) - 1)}

KNearestNeighbours ==
  /\ TreeReady
  /\ \E k \in 0..MaxK, point \in PointArgs :
       LET p == Coordinates(vertices, point) IN
       \E loc \in {{}} \cup {{c} : c \in {d \in LeafCodes(points) :
                                            Len(points[d]) > 0 /\ Contains(aabbs[d], p)}} :
         LET r == kNearestNeighbours(points, aabbs, vertices, k, point, loc) IN
         ret' = [k |-> k, form |-> point.kind, point |-> p, locCode |-> loc,
                 thrown |-> r.thrown, indices |-> r.indices]
  /\ op' = "kNearestNeighbours"
  /\ UNCHANGED queryFrame

NextKnn == Build \/ KNearestNeighbours

SpecKnn == InitQuery /\ [][NextKnn]_vars

TotalPoints == Cardinality(StoredIndices(points))

\* C9: kNearestNeighbours returns exactly min(k+1, totalPoints) indices, and
\* with fewer than k+1 points in the tree exactly the points of the tree
C9_KnnCount ==
  (op = "kNearestNeighbours" /\ ret.thrown = "none") =>
    /\ Len(ret.indices) = Min2(ret.k + 1, TotalPoints)
    /\ TotalPoints < ret.k + 1 => Range(ret.indices) = StoredIndices(points)

\* squared distance of the n-th closest vertex of the tree to p
NthClosestDistSq(p, n) ==
  CHOOSE d \in {DistSq(Position(vertices, x), p) : x \in StoredIndices(points)} :
    /\ Cardinality({x \in StoredIndices(points) : DistSq(Position(vertices, x), p) <= d}) >= n
    /\ Cardinality({x \in StoredIndices(points) : DistSq(Position(vertices, x), p) < d}) < n

\* C10: with at least k+1 points in the tree, every returned index is no
\* farther than the (k+1)-th closest point, and the returned indices are
\* pairwise distinct
C10_KnnNearest ==
  (op = "kNearestNeighbours" /\ ret.thrown = "none" /\ TotalPoints >= ret.k + 1) =>
    /\ \A i \in DOMAIN ret.indices :
         DistSq(Position(vertices, ret.indices[i]), ret.point)
           <= NthClosestDistSq(ret.point, ret.k + 1)
    /\ \A i, j \in DOMAIN ret.indices : i # j => ret.indices[i] # ret.indices[j]

\* C11: kNearestNeighbours returns k+1 indices, and when the query point is a
\* point of the leaf given as locCode the first index is a vertex at
\* distance 0 from the query
C11_KnnSelfFirst ==
  op = "kNearestNeighbours" =>
    /\ Len(ret.indices) = ret.k + 1
    /\ \A c \in ret.locCode :
         (\E i \in DOMAIN points[c] : Position(vertices, points[c][i]) = ret.point)
           => DistSq(Position(vertices, ret.indices[1]), ret.point) = 0

\* C12: a query given as a vertex index raises no error and returns what the
\* query given as that vertex's coordinates returns
C12_IndexQuery ==
  (op = "kNearestNeighbours" /\ ret.form = "number") =>
    /\ ret.thrown = "none"
    /\ ret.indices = kNearestNeighbours(points, aabbs, vertices, ret.k,
                                        Vertex(ret.point), ret.locCode).indices

----------------------------------------------------------------------------
(* Octree.traverseIf and Octree.raySearch *)

\* pass: the location codes whose box the condition callback accepts
RECURSIVE TraverseIfFrom(_, _, _, _, _)
RECURSIVE TraverseIfChildren(_, _, _, _, _, _)

TraverseIfFrom(acc, boxes, pass, locCode, depth) ==
  IF acc.thrown THEN acc
  ELSE IF depth > Cardinality(DOMAIN boxes) THEN [acc EXCEPT !.thrown = TRUE]
  ELSE TraverseIfChildren(acc, boxes, pass, locCode, depth, 0)

TraverseIfChildren(acc, boxes, pass, locCode, depth, i) ==
  IF i > 7 \/ acc.thrown THEN acc
  ELSE
    LET next == ChildCode(locCode, i)
        acc1 == IF Has(boxes, next) /\ next \in pass
                THEN TraverseIfFrom([acc EXCEPT !.visited = Append(@, next)],
                                    boxes, pass, next, depth + 1)
                ELSE acc
    IN  TraverseIfChildren(acc1, boxes, pass, locCode, depth, i + 1)

traverseIf(boxes, pass) ==
  TraverseIfFrom([visited |-> <<>>, thrown |-> FALSE], boxes, pass, 1, 0)

\* A ray runs along one axis: direction has one component 1 or -1, the
\* others 0, so it is already normalised.
\* new Vector3f(1, 1, 1).divide(dir): 1 / 1 = 1, 1 / -1 = -1, 1 / 0 = Infinity
InverseDir(dir) ==
  [axis \in 1..3 |-> [infinite |-> dir[axis] = 0, value |-> dir[axis]]]

\* the parameters t at which the ray is inside the slab [lo, hi] of one axis;
\* a ray running along the slab is inside it always or never
SlabSpan(lo, hi, src, inv) ==
  IF inv.infinite
  THEN [hit |-> lo <= src /\ src <= hi, enter |-> 0, leave |-> NumberMaxValue]
  ELSE LET t1 == (lo - src) * inv.value
           t2 == (hi - src) * inv.value
       IN  [hit |-> TRUE, enter |-> Min2(t1, t2), leave |-> Max2(t1, t2)]

\* AABB.cylinderTest(source, inverseDir, dist, radius): the box grown by
\* radius on every side meets the ray between its source and dist
cylinderTest(aabb, source, inverseDir, dist, radius) ==
  LET span(axis) == SlabSpan(BoxMin(aabb, axis) - radius, BoxMax(aabb, axis) + radius,
                             source[axis], inverseDir[axis])
  IN  /\ \A axis \in 1..3 : span(axis).hit
      /\ LET enter == Max2(Max2(span(1).enter, span(2).enter), Max2(span(3).enter, 0))
             leave == Min2(Min2(span(1).leave, span(2).leave), span(3).leave)
         IN  enter <= leave /\ enter <= dist

RECURSIVE Entries(_, _, _)
Entries(pts, locCode, i) ==
  IF i > Len(pts[locCode]) THEN <<>>
  ELSE <<[index |-> pts[locCode][i], locCode |-> locCode]>> \o Entries(pts, locCode, i + 1)

RECURSIVE CollectEntries(_, _)
CollectEntries(pts, visited) ==
  IF visited = <<>> THEN <<>>
  ELSE (IF pts[Head(visited)] = Null THEN <<>> ELSE Entries(pts, Head(visited), 1))
       \o CollectEntries(pts, Tail(visited))

\* raySearch(raycaster)
raySearch(pts, boxes, ray, rc) ==
  LET rootEntries == IF pts[1] # Null THEN Entries(pts, 1, 1) ELSE <<>>
      inverseDir == InverseDir(ray.direction)
      pass == {c \in DOMAIN boxes :
                 cylinderTest(boxes[c], ray.source, inverseDir, rc.far, rc.threshold)}
  IN  rootEntries \o CollectEntries(pts, traverseIf(boxes, pass).visited)

----------------------------------------------------------------------------
(* OctreeHelper.rayIntersections and getIntersections.  The model matrix of *)
(* the target is the identity: the ray is the same in world and model space. *)

Dot(a, b) == a[1] * b[1] + a[2] * b[2] + a[3] * b[3]

Sub(a, b) == [axis \in 1..3 |-> a[axis] - b[axis]]

\* Ray.closestPointToPoint(v): the foot of v on the ray, the source behind it
closestPointToPoint(ray, v) ==
  LET t == Dot(Sub(v, ray.source), ray.direction)
  IN  IF t < 0 THEN ray.source
      ELSE [axis \in 1..3 |-> ray.source[axis] + t * ray.direction[axis]]

\* Ray.distanceSqToPoint(v)
rayDistanceSqToPoint(ray, v) == DistSq(closestPointToPoint(ray, v), v)

\* Vector3f.distanceTo between the source and a point on the ray
DistanceAlong(ray, q) == Max2(Dot(Sub(q, ray.source), ray.direction), 0)

\* FilterBase.isVisible(geometry, index)
isVisible(tgt, index) == tgt.blue[index + 1] > 0

RECURSIVE rayIntersections(_, _, _, _, _)
rayIntersections(verts, ray, rc, tgt, indices) ==
  IF indices = <<>> THEN <<>>
  ELSE
    LET index == Head(indices).index
        locCode == Head(indices).locCode
        localThreshold == rc.threshold * tgt.pointScale
        v == Position(verts, index)
        dist == DistanceAlong(ray, closestPointToPoint(ray, v))
        rest == rayIntersections(verts, ray, rc, tgt, Tail(indices))
    IN  IF rayDistanceSqToPoint(ray, v) < Sq(localThreshold)
           /\ ~(dist < rc.near \/ dist > rc.far \/ dist < tgt.cutoff \/ ~isVisible(tgt, index))
        THEN <<[distance |-> dist, index |-> index, locCode |-> locCode, position |-> v]>>
             \o rest
        ELSE rest

\* result.sort((a, b) => a.distance - b.distance)
RECURSIVE InsertByDistance(_, _)
InsertByDistance(s, x) ==
  IF s = <<>> THEN <<x>>
  ELSE IF Head(s).distance <= x.distance THEN <<Head(s)>> \o InsertByDistance(Tail(s), x)
  ELSE <<x>> \o s

RECURSIVE SortByDistance(_)
SortByDistance(s) ==
  IF s = <<>> THEN <<>>
  ELSE InsertByDistance(SortByDistance(SubSeq(s, 1, Len(s) - 1)), s[Len(s)])

getIntersections(pts, boxes, verts, ray, rc, tgt) ==
  SortByDistance(rayIntersections(verts, ray, rc, tgt, raySearch(pts, boxes, ray, rc)))

\* rays the camera hands to raycaster.set
Rays ==
  { [source |-> <<-8, -2, 0>>, direction |-> <<1, 0, 0>>],
    [source |-> <<-8, 0, 0>>, direction |-> <<1, 0, 0>>],
    [source |-> <<8, -6, -6>>, direction |-> <<-1, 0, 0>>],
    [source |-> <<1, 1, -8>>, direction |-> <<0, 0, 1>>],
    [source |-> <<3, 8, 5>>, direction |-> <<0, -1, 0>>],
    [source |-> <<2, 2, 2>>, direction |-> <<0, 0, 1>>] }

PickThresholds == {1, 2}
PointScales == {1, 3}

InitRay ==
  /\ \E t \in QueryThresholdArgs, d \in QueryMaxDepthArgs : Construct(t, d)
  /\ vertices \in SeqsUpTo(QuerySites, MaxPoints)
  /\ rootBox = Box(<<0, 0, 0>>, QueryRootRadius)
  /\ raycaster = NewRaycaster
  /\ \E scale \in PointScales :
       target = [NewTarget(Len(vertices)) EXCEPT !.pointScale = scale]
  /\ phase = "new"
  /\ calls = <<>>
  /\ op = "constructor"
  /\ ret = Null
  /\ clone = <<>>
  /\ controls = Absent
  /\ helper = Absent

\* OctreeHelper.setThreshold(threshold)
SetThreshold ==
  /\ phase = "built"
  /\ op = "build"
  /\ \E t \in PickThresholds : raycaster' = [raycaster EXCEPT !.threshold = t]
  /\ op' = "setThreshold"
  /\ ret' = Null
  /\ UNCHANGED <<threshold, maxDepth, points, aabbs, vertices, rootBox, target, phase, calls, clone,
                 controls, helper>>

\* every (index, locCode) pair of the tree
RECURSIVE SeqOfSet(_)
SeqOfSet(S) ==
  IF S = {} THEN <<>>
  ELSE LET x == CHOOSE x \in S : \A y \in S : x <= y
       IN  <<x>> \o SeqOfSet(S \ {x})

AllEntries(pts) == CollectEntries(pts, SeqOfSet(LeafCodes(pts)))

GetIntersections ==
  /\ TreeReady
  /\ \E ray \in Rays :
       ret' = [ray |-> ray,
               candidates |-> raySearch(points, aabbs, ray, raycaster),
               result |-> getIntersections(points, aabbs, vertices, ray, raycaster, target)]
  /\ op' = "getIntersections"
  /\ UNCHANGED queryFrame

NextRay == Build \/ SetThreshold \/ GetIntersections

SpecRay == InitRay /\ [][NextRay]_vars

HitIndices(hits) == {hits[i].index : i \in DOMAIN hits}

\* C7: the hits of getIntersections are the hits of the exact test run over
\* every point of the tree: pruning by raySearch drops no point the caller's
\* test accepts
C7_NoFalseNegatives ==
  op = "getIntersections" =>
    HitIndices(ret.result)
      = HitIndices(rayIntersections(vertices, ret.ray, raycaster, target, AllEntries(points)))

----------------------------------------------------------------------------

----------------------------------------------------------------------------
(* The worked example: threshold 2, maxDepth 4, five points in a root box  *)
(* of centre (0,0,0) and radius 8.  Lengths are in half units, so that the *)
(* boxes of depth 4 (radius 0.5) have whole coordinates; the vertex buffer *)
(* holds the five points in any order.                                     *)

ExampleRadius == 2 * 8
ExampleOutlier == <<2 * 5, 2 * 5, 2 * 5>>
ExampleCluster == {<<0, 0, 0>>, <<0, 0, 2 * 1>>, <<0, 2 * 1, 0>>, <<2 * 1, 0, 0>>}
ExamplePoints == ExampleCluster \cup {ExampleOutlier}

Orderings(S) ==
  {s \in SeqsUpTo(S, Cardinality(S)) : Len(s) = Cardinality(S) /\ Range(s) = S}

InitExample ==
  /\ Construct(2, 4)
  /\ vertices \in Orderings(ExamplePoints)
  /\ rootBox = Box(<<0, 0, 0>>, ExampleRadius)
  /\ raycaster = NewRaycaster
  /\ target = NewTarget(Len(vertices))
  /\ phase = "new"
  /\ calls = <<>>
  /\ op = "constructor"
  /\ ret = Null
  /\ clone = <<>>
  /\ controls = Absent
  /\ helper = Absent

NextExample == Build \/ Traverse

SpecExample == InitExample /\ [][NextExample]_vars

\* the index of the outlier in the vertex buffer
OutlierIndex == CHOOSE i \in InputIndices : Position(vertices, i) = ExampleOutlier

\* build was invoked for the node reached by path with n points
Called(path, n) == \E k \in DOMAIN calls : calls[k].path = path /\ calls[k].n = n

\* the node of locCode is a leaf holding exactly the outlier
OutlierLeaf(locCode) ==
  /\ Has(points, locCode)
  /\ locCode \in LeafCodes(points)
  /\ points[locCode] = <<OutlierIndex>>

\* C13: the subdivision of the root puts the outlier into an octant leaf of
\* its own and the four clustered points into another octant, and every
\* leaf of the finished tree holds at most 2 points
C13_ExampleRootSplit ==
  phase = "built" =>
    /\ \E i, j \in 0..7 :
         /\ i # j
         /\ OutlierLeaf(ChildCode(1, i))
         /\ Called(<<j>>, 4)
    /\ \A c \in LeafCodes(points) : Len(points[c]) <= 2

\* C13 as amended: the subdivision of the root puts all five points into
\* octant 7; the subdivision of that octant puts the outlier into an octant
\* leaf of its own (7) and the four clustered points into another (0), and
\* every leaf of the finished tree holds at most 2 points
C13_ExampleSecondSplit ==
  phase = "built" =>
    /\ Called(<<7>>, 5)
    /\ OutlierLeaf(ChildCode(ChildCode(1, 7), 7))
    /\ Called(<<7, 0>>, 4)
    /\ \A c \in LeafCodes(points) : Len(points[c]) <= 2

\* the example is built: five points over six leaves at most
C13_Witness ==
  /\ phase = "built"
  /\ StoredIndices(points) = InputIndices
  /\ Cardinality(InputIndices) = 5
  /\ Called(<<7, 0, 0>>, 4)

----------------------------------------------------------------------------
(* Octree.clone, and build run again on an instance that was built before. *)
(* Objects are named: the point map of the original octree, the empty map  *)
(* the clone's constructor makes, and one AABB object per owner and code.  *)

OriginalPoints == "original.points"
ClonePoints == "clone.points"

\* the AABB object the octree `owner` holds under code
BoxObject(owner, code) == <<owner, code>>

\* AABB.clone(original): a new object with the centre and radius of the
\* original; whether the location code is carried over is left open
AABBClone(aabb, code, keepLocCode) ==
  [ref |-> BoxObject("clone", code),
   box |-> [center |-> aabb.center, radius |-> aabb.radius,
            locCode |-> IF keepLocCode THEN aabb.locCode ELSE 0]]

\* Octree.clone with the loop body `clone.aabbs[property] = original.aabbs[property]`
OctreeCloneSharedBoxes(thr, maxD, boxes, keepLocCode) ==
  [threshold |-> thr,
   maxDepth |-> maxD,
   points |-> OriginalPoints,
   aabbs |-> [c \in DOMAIN boxes |-> [ref |-> BoxObject("original", c), box |-> boxes[c]]]]

\* Octree.clone(original): the clone's points field is set to the
\* original's map object, its aabbs map gets a copy of every box
OctreeClone(thr, maxD, boxes, keepLocCode) ==
  [threshold |-> thr,
   maxDepth |-> maxD,
   points |-> OriginalPoints,
   aabbs |-> [c \in DOMAIN boxes |-> AABBClone(boxes[c], c, keepLocCode)]]

\* the map a points field refers to
Deref(ref) == IF ref = OriginalPoints THEN points ELSE EmptyMap

\* what traverse hands to its callback, call by call: this.points[next] and next
TraverseArguments(pts, boxes) ==
  LET visited == traverse(boxes).visited
  IN  [i \in DOMAIN visited |->
         [code |-> visited[i],
          points |-> IF Has(pts, visited[i]) THEN <<pts[visited[i]]>> ELSE <<>>]]

\* most vertices of a buffer in the clone specification
CloneMaxPoints == 2

CloneSites == {<<-7, -7, -7>>, <<-5, -5, -5>>, <<5, 5, 5>>}
CloneBuffers == SeqsUpTo(CloneSites, CloneMaxPoints)

InitClone ==
  /\ \E d \in {1, 2} : Construct(1, d)
  /\ vertices \in CloneBuffers
  /\ rootBox = Box(<<0, 0, 0>>, QueryRootRadius)
  /\ raycaster = NewRaycaster
  /\ target = NewTarget(Len(vertices))
  /\ phase = "new"
  /\ calls = <<>>
  /\ op = "constructor"
  /\ ret = Null
  /\ clone = <<>>
  /\ controls = Absent
  /\ helper = Absent

\* Octree.clone(original); atClone keeps what traverse on the clone hands
\* to its callback right after cloning (history)
Clone ==
  /\ phase = "built"
  /\ clone = <<>>
  /\ \E keepLocCode \in BOOLEAN :
       LET c == OctreeClone(threshold, maxDepth, aabbs, keepLocCode)
       IN  clone' = <<[octree |-> c,
                      atClone |-> TraverseArguments(points, [k \in DOMAIN c.aabbs |-> c.aabbs[k].box])]>>
  /\ op' = "clone"
  /\ ret' = Null
  /\ UNCHANGED <<threshold, maxDepth, points, aabbs, vertices, rootBox, raycaster, target,
                 phase, calls, controls, helper>>

\* build(pointIndices, vertices, aabb) once more on the original, for a new
\* vertex buffer: the maps are written into as they are
Rebuild ==
  /\ phase = "built"
  /\ op \in {"build", "clone"}
  /\ \E verts \in CloneBuffers :
       LET r == BuildResult(points, aabbs, verts, threshold, maxDepth,
                            Iota(Len(verts)), rootBox)
       IN  /\ vertices' = verts
           /\ target' = NewTarget(Len(verts))
           /\ points' = r.points
           /\ aabbs' = r.aabbs
           /\ calls' = r.calls
           /\ phase' = IF r.thrown THEN "error" ELSE "built"
  /\ rootBox' = CallerBox(rootBox, 1)
  /\ op' = "rebuild"
  /\ ret' = Null
  /\ UNCHANGED <<threshold, maxDepth, raycaster, clone, controls, helper>>

\* clone.traverse(callback)
TraverseClone ==
  /\ phase = "built"
  /\ clone # <<>>
  /\ op \in {"clone", "rebuild"}
  /\ op' = "clone.traverse"
  /\ ret' = TraverseArguments(Deref(clone[1].octree.points),
                              [k \in DOMAIN clone[1].octree.aabbs |-> clone[1].octree.aabbs[k].box])
  /\ UNCHANGED queryFrame

NextClone == Build \/ Clone \/ Rebuild \/ TraverseClone

SpecClone == InitClone /\ [][NextClone]_vars

\* C14: right after Octree.clone the clone has the original's threshold and
\* maxDepth, a box of the same centre and radius under every key of the
\* original's box map and no other, each a new object, and as point map the
\* very map of the original
C14_CloneShape ==
  op = "clone" =>
    /\ clone[1].octree.threshold = threshold
    /\ clone[1].octree.maxDepth = maxDepth
    /\ DOMAIN clone[1].octree.aabbs = DOMAIN aabbs
    /\ \A c \in DOMAIN aabbs :
         /\ clone[1].octree.aabbs[c].ref # BoxObject("original", c)
         /\ clone[1].octree.aabbs[c].box.center = aabbs[c].center
         /\ clone[1].octree.aabbs[c].box.radius = aabbs[c].radius
    /\ clone[1].octree.points = OriginalPoints
    /\ Deref(clone[1].octree.points) = points

\* a tree of a root and two leaves is cloned
C14_Witness ==
  /\ op = "clone"
  /\ Cardinality(DOMAIN clone[1].octree.aabbs) >= 3
  /\ Cardinality(StoredIndices(points)) = 2

\* C15: whatever is done to the original afterwards, traverse on the clone
\* hands its callback what it did right after cloning, and the clone's
\* point map and box map have the same keys
C15_CloneIsolated ==
  clone # <<>> =>
    /\ TraverseArguments(Deref(clone[1].octree.points),
                         [k \in DOMAIN clone[1].octree.aabbs |-> clone[1].octree.aabbs[k].box])
         = clone[1].atClone
    /\ DOMAIN Deref(clone[1].octree.points) = DOMAIN clone[1].octree.aabbs

----------------------------------------------------------------------------
(* Octree.getNeighbours *)

\* AABB.testAABB(other): the closed intervals of the two boxes meet on
\* every axis
testAABB(aabb, other) ==
  \A axis \in 1..3 :
    /\ BoxMin(aabb, axis) <= BoxMax(other, axis)
    /\ BoxMin(other, axis) <= BoxMax(aabb, axis)

\* getNeighbours(locCode)
getNeighbours(pts, boxes, locCode) ==
  LET pass == {c \in DOMAIN boxes : testAABB(boxes[c], boxes[locCode])}
      r == traverseIf(boxes, pass)
  IN  [thrown |-> r.thrown, locCodes |-> FilterCells(pts, r.visited, locCode)]

GetNeighbours ==
  /\ TreeReady
  /\ \E locCode \in DOMAIN aabbs :
       LET r == getNeighbours(points, aabbs, locCode)
       IN  ret' = [locCode |-> locCode, thrown |-> r.thrown, locCodes |-> r.locCodes]
  /\ op' = "getNeighbours"
  /\ UNCHANGED queryFrame

NextNeighbours == Build \/ GetNeighbours

\* over the trees of the build specification, deep ones included
SpecNeighbours == Init /\ [][NextNeighbours]_vars

\* the leaves other than locCode that hold a point and whose box meets the
\* box of locCode
OverlappingLeaves(locCode) ==
  {c \in LeafCodes(points) :
     /\ c # locCode
     /\ Len(points[c]) > 0
     /\ testAABB(aabbs[c], aabbs[locCode])}

\* C16: getNeighbours returns, each once, exactly the leaves other than
\* locCode that hold a point and whose box overlaps the box of locCode
C16_NeighboursExact ==
  op = "getNeighbours" =>
    /\ ~ret.thrown
    /\ Range(ret.locCodes) = OverlappingLeaves(ret.locCode)
    /\ Len(ret.locCodes) = Cardinality(Range(ret.locCodes))

----------------------------------------------------------------------------
(* Octree.intersectBox *)

\* the open intervals of [min, max] and of the box meet on every axis
OverlapsOpen(min, max, aabb) ==
  \A axis \in 1..3 : min[axis] < BoxMax(aabb, axis) /\ max[axis] > BoxMin(aabb, axis)

\* what the traverseIf callback writes to the console, call by call
RECURSIVE Logged(_, _)
Logged(pts, visited) ==
  IF visited = <<>> THEN <<>>
  ELSE (IF pts[Head(visited)] = Null THEN <<>>
        ELSE <<[locCode |-> Head(visited), count |-> Len(pts[Head(visited)])]>>)
       \o Logged(pts, Tail(visited))

\* intersectBox(min, max): the condition callback lets a node through when
\* its box does NOT overlap the query box, the traverse callback only logs,
\* and nothing is ever pushed to result
intersectBox(pts, boxes, min, max) ==
  LET pass == {c \in DOMAIN boxes : ~OverlapsOpen(min, max, boxes[c])}
      r == traverseIf(boxes, pass)
  IN  [result |-> <<>>, logged |-> Logged(pts, r.visited), thrown |-> r.thrown]

\* query boxes: an octant, a cube inside another octant, the whole root cube
QueryBoxes ==
  { [min |-> <<-8, -8, -8>>, max |-> <<0, 0, 0>>],
    [min |-> <<2, 2, 2>>, max |-> <<6, 6, 6>>],
    [min |-> <<-8, -8, -8>>, max |-> <<8, 8, 8>>] }

IntersectBox ==
  /\ TreeReady
  /\ \E q \in QueryBoxes :
       LET r == intersectBox(points, aabbs, q.min, q.max)
       IN  ret' = [min |-> q.min, max |-> q.max, result |-> r.result, logged |-> r.logged]
  /\ op' = "intersectBox"
  /\ UNCHANGED queryFrame

NextIntersect == Build \/ IntersectBox

SpecIntersect == InitQuery /\ [][NextIntersect]_vars

\* C22: intersectBox returns the location code and point count of every node
\* that holds points and whose box the query box intersects, and of no other
C22_IntersectBoxResult ==
  op = "intersectBox" =>
    Range(ret.result) =
      {[locCode |-> c, count |-> Len(points[c])] :
         c \in {d \in LeafCodes(points) :
                  Len(points[d]) > 0 /\ OverlapsOpen(ret.min, ret.max, aabbs[d])}}

----------------------------------------------------------------------------
(* ControlsBase: the listeners of an event are an array in registration    *)
(* order.  A callback is known by its name; an event nobody listens for    *)
(* has the empty array.                                                    *)

EventNames == {"click", "dblclick", "mousemove", "updated"}

NoListeners == [eventName \in EventNames |-> <<>>]

\* Array.prototype.indexOf, counting from 0; -1 when absent
IndexOf(s, x) ==
  IF \E i \in DOMAIN s : s[i] = x
  THEN (CHOOSE i \in DOMAIN s : s[i] = x /\ \A j \in 1..(i - 1) : s[j] # x) - 1
  ELSE -1

\* Array.prototype.splice(index, 1) for index >= 0
Splice1(s, index) ==
  IF index >= Len(s) THEN s
  ELSE SubSeq(s, 1, index) \o SubSeq(s, index + 2, Len(s))

\* ControlsBase.addEventListener(eventName, callback)
addEventListener(listeners, eventName, callback) ==
  [listeners EXCEPT ![eventName] = Append(@, callback)]

\* ControlsBase.removeEventListener(eventName, callback)
removeEventListener(listeners, eventName, callback) ==
  LET index == IndexOf(listeners[eventName], callback)
  IN  IF index > -1 THEN [listeners EXCEPT ![eventName] = Splice1(@, index)]
      ELSE listeners

----------------------------------------------------------------------------
(* OctreeHelper.  An item of the selected collection, and the hovered item, *)
(* is modelled by its vertex index and position; its distance, location    *)
(* code, colour, timestamp and screen position, which no operation below   *)
(* reads, are left out.  helper.raised lists the events the helper raised  *)
(* during the last operation; helper.destructed records that destruct ran. *)

HelperHandlers == {"_clickHandler", "_dblclickHandler", "_mousemoveHandler", "_updatedHandler"}

ItemOf(index) == [index |-> index, position |-> Position(vertices, index)]

\* the hits of a ray sent from the mouse position, nearest first
Pick(ray) ==
  LET result == getIntersections(points, aabbs, vertices, ray, raycaster, target)
  IN  [i \in DOMAIN result |-> ItemOf(result[i].index)]

\* OctreeHelper.raiseEvent(eventName, data)
helperRaiseEvent(hp, eventName) == [hp EXCEPT !.raised = Append(@, eventName)]

\* a selectedContains that finds nothing
selectedContainsNever(selected, index) == FALSE
\* OctreeHelper.selectedContains(index)
selectedContains(selected, index) == \E i \in DOMAIN selected : selected[i].index = index

\* this.selected[0] = item
SetFirst(selected, item) ==
  IF selected = <<>> THEN <<item>> ELSE [selected EXCEPT ![1] = item]

\* OctreeHelper.addSelected(item)
addSelected(hp, item) ==
  IF selectedContains(hp.selected, item.index) THEN helperRaiseEvent(hp, "reselected")
  ELSE helperRaiseEvent(
         [hp EXCEPT !.selected = IF hp.multiSelect THEN Append(@, item) ELSE SetFirst(@, item)],
         "selectedchanged")

\* OctreeHelper.removeSelected(index)
removeSelected(hp, index) ==
  helperRaiseEvent([hp EXCEPT !.selected = Splice1(@, index)], "selectedchanged")

\* OctreeHelper.clearSelected()
clearSelected(hp) == helperRaiseEvent([hp EXCEPT !.selected = <<>>], "selectedchanged")

\* OctreeHelper.setHovered(index)
setHovered(hp, index) ==
  IF hp.hovered # <<>> /\ hp.hovered[1].index = index THEN hp
  ELSE helperRaiseEvent([hp EXCEPT !.hovered = <<ItemOf(index)>>], "hoveredchanged")

\* OctreeHelper.selectHovered()
selectHovered(hp) ==
  IF hp.hovered = <<>> \/ selectedContains(hp.selected, hp.hovered[1].index) THEN hp
  ELSE addSelected(hp, hp.hovered[1])

\* this._clickHandler and this._dblclickHandler
clickHandler(hp, e) ==
  IF e.middle \/ e.right \/ ~e.visible THEN hp
  ELSE LET result == Pick(e.ray)
       IN  IF Len(result) > 0 THEN addSelected(hp, result[1]) ELSE hp

\* this._mousemoveHandler
mousemoveHandler(hp, e) ==
  IF e.left \/ e.middle \/ e.right \/ ~e.visible THEN hp
  ELSE LET result == Pick(e.ray)
       IN  IF Len(result) > 0
           THEN IF hp.hovered # <<>> /\ hp.hovered[1].index = result[1].index THEN hp
                ELSE helperRaiseEvent([hp EXCEPT !.hovered = <<result[1]>>], "hoveredchanged")
           ELSE helperRaiseEvent([hp EXCEPT !.hovered = <<>>], "hoveredchanged")

\* this._updatedHandler
updatedHandler(hp, e) ==
  IF ~e.visible THEN hp ELSE helperRaiseEvent(hp, "updated")

\* new OctreeHelper(renderer, geometryName, shaderName, target, options)
NewHelper(multiSelect) ==
  [selected |-> <<>>, hovered |-> <<>>, multiSelect |-> multiSelect,
   raised |-> <<>>, destructed |-> FALSE]

RegisterHandlers(listeners) ==
  addEventListener(
    addEventListener(
      addEventListener(
        addEventListener(listeners, "click", "_clickHandler"),
        "dblclick", "_dblclickHandler"),
      "mousemove", "_mousemoveHandler"),
    "updated", "_updatedHandler")

\* OctreeHelper.destruct()
destruct(listeners) ==
  removeEventListener(
    removeEventListener(
      removeEventListener(
        removeEventListener(listeners, "click", "_dblclickHandler"),
        "dblclick", "_dblclickHandler"),
      "mousemove", "_mousemoveHandler"),
    "updated", "_updatedHandler")

----------------------------------------------------------------------------
(* Dispatch.  Listeners other than the helper's are the application's: one *)
(* that does nothing to the listeners, one that removes itself, one that   *)
(* removes the first, and one that registers the first again.              *)

Callbacks == {"listenerA", "listenerB", "removeSelf", "removeA", "addA"}

\* calling one listener: st is [listeners, helper, invoked]
Invoke(callback, st, eventName, e) ==
  LET called == [st EXCEPT !.invoked = Append(@, callback)]
  IN  CASE callback \in {"_clickHandler", "_dblclickHandler"} ->
             [called EXCEPT !.helper = clickHandler(@, e)]
        [] callback = "_mousemoveHandler" ->
             [called EXCEPT !.helper = mousemoveHandler(@, e)]
        [] callback = "_updatedHandler" ->
             [called EXCEPT !.helper = updatedHandler(@, e)]
        [] callback = "removeSelf" ->
             [called EXCEPT !.listeners = removeEventListener(@, eventName, "removeSelf")]
        [] callback = "removeA" ->
             [called EXCEPT !.listeners = removeEventListener(@, eventName, "listenerA")]
        [] callback = "addA" ->
             [called EXCEPT !.listeners = addEventListener(@, eventName, "listenerA")]
        [] OTHER -> called

\* the loop of ControlsBase.raiseEvent: i runs over the array as it is now
RECURSIVE DispatchFrom(_, _, _, _)
DispatchFrom(st, eventName, e, i) ==
  IF i >= Len(st.listeners[eventName]) THEN st
  ELSE DispatchFrom(Invoke(st.listeners[eventName][i + 1], st, eventName, e), eventName, e, i + 1)

\* ControlsBase.raiseEvent(eventName, data)
raiseEvent(listeners, hp, eventName, e) ==
  DispatchFrom([listeners |-> listeners, helper |-> hp, invoked |-> <<>>], eventName, e, 0)

----------------------------------------------------------------------------
(* The helper of a built point cloud and the events of its controls.       *)

\* the vertex buffers of the point cloud: none, one, two and three points on
\* the sites (0,0,0) and (1,1,1)
HelperBuffers ==
  { <<>>,
    << <<0, 0, 0>> >>,
    << <<0, 0, 0>>, <<1, 1, 1>> >>,
    << <<1, 1, 1>>, <<0, 0, 0>>, <<0, 0, 0>> >> }

InitHelper ==
  /\ Construct(1, 2)
  /\ vertices \in HelperBuffers
  /\ rootBox = Box(<<0, 0, 0>>, QueryRootRadius)
  /\ raycaster = NewRaycaster
  /\ target = NewTarget(Len(vertices))
  /\ phase = "new"
  /\ calls = <<>>
  /\ op = "constructor"
  /\ ret = Null
  /\ clone = <<>>
  /\ controls = [eventListeners |-> NoListeners]
  /\ helper = Absent

octreeFrame == <<threshold, maxDepth, points, aabbs, vertices, rootBox, raycaster, target,
                 phase, calls, clone>>

HelperOps ==
  {"OctreeHelper", "click", "dblclick", "mousemove", "updated", "addSelected", "selectHovered",
   "removeSelected", "clearSelected", "setHovered", "destruct"}

HelperReady == phase = "built" /\ op \in HelperOps

ConstructHelper ==
  /\ phase = "built"
  /\ op = "build"
  /\ \E multiSelect \in BOOLEAN : helper' = NewHelper(multiSelect)
  /\ controls' = [controls EXCEPT !.eventListeners = RegisterHandlers(@)]
  /\ op' = "OctreeHelper"
  /\ ret' = Null
  /\ UNCHANGED octreeFrame

\* what the canvas hands to the listeners: the mouse buttons, the ray through
\* the mouse position, and whether the point cloud is shown
Buttons(left, middle, right) == [left |-> left, middle |-> middle, right |-> right]

MouseStates ==
  {Buttons(FALSE, FALSE, FALSE), Buttons(TRUE, FALSE, FALSE), Buttons(FALSE, TRUE, FALSE),
   Buttons(FALSE, FALSE, TRUE)}

\* a ray that misses every site, one through (0,0,0) and one through (1,1,1)
HelperRays ==
  { [source |-> <<-8, -2, 0>>, direction |-> <<1, 0, 0>>],
    [source |-> <<-8, 0, 0>>, direction |-> <<1, 0, 0>>],
    [source |-> <<1, 1, -8>>, direction |-> <<0, 0, 1>>] }

MouseData ==
  { [left |-> m.left, middle |-> m.middle, right |-> m.right, visible |-> v, ray |-> ray] :
      m \in MouseStates, v \in BOOLEAN, ray \in HelperRays }

Begin(hp) == [hp EXCEPT !.raised = <<>>]

\* the controls raise eventName
ControlsEvent(eventName) ==
  /\ HelperReady
  /\ \E e \in MouseData :
       LET st == raiseEvent(controls.eventListeners, Begin(helper), eventName, e)
       IN  /\ helper' = st.helper
           /\ controls' = [controls EXCEPT !.eventListeners = st.listeners]
           /\ ret' = [before |-> helper.selected, invoked |-> st.invoked]
  /\ op' = eventName
  /\ UNCHANGED octreeFrame

Click == ControlsEvent("click")

DblClick == ControlsEvent("dblclick")

MouseMove == ControlsEvent("mousemove")

Updated == ControlsEvent("updated")

VertexIndices == 0..(Len(vertices) - 1)

AddSelected ==
  /\ HelperReady
  /\ \E index \in VertexIndices :
       /\ helper' = addSelected(Begin(helper), ItemOf(index))
       /\ ret' = [index |-> index, before |-> helper.selected]
  /\ op' = "addSelected"
  /\ UNCHANGED <<octreeFrame, controls>>

SelectHovered ==
  /\ HelperReady
  /\ helper' = selectHovered(Begin(helper))
  /\ ret' = [before |-> helper.selected]
  /\ op' = "selectHovered"
  /\ UNCHANGED <<octreeFrame, controls>>

RemoveSelected ==
  /\ HelperReady
  /\ \E index \in 0..Len(helper.selected) :
       /\ helper' = removeSelected(Begin(helper), index)
       /\ ret' = [index |-> index, before |-> helper.selected]
  /\ op' = "removeSelected"
  /\ UNCHANGED <<octreeFrame, controls>>

ClearSelected ==
  /\ HelperReady
  /\ helper' = clearSelected(Begin(helper))
  /\ ret' = [before |-> helper.selected]
  /\ op' = "clearSelected"
  /\ UNCHANGED <<octreeFrame, controls>>

SetHovered ==
  /\ HelperReady
  /\ \E index \in VertexIndices :
       /\ helper' = setHovered(Begin(helper), index)
       /\ ret' = [index |-> index, before |-> helper.selected]
  /\ op' = "setHovered"
  /\ UNCHANGED <<octreeFrame, controls>>

Destruct ==
  /\ HelperReady
  /\ controls' = [controls EXCEPT !.eventListeners = destruct(@)]
  /\ helper' = [Begin(helper) EXCEPT !.destructed = TRUE]
  /\ ret' = [before |-> helper.selected]
  /\ op' = "destruct"
  /\ UNCHANGED octreeFrame

NextHelper ==
  \/ Build \/ ConstructHelper
  \/ Click \/ DblClick \/ MouseMove \/ Updated
  \/ AddSelected \/ SelectHovered \/ RemoveSelected \/ ClearSelected \/ SetHovered
  \/ Destruct

SpecHelper == InitHelper /\ [][NextHelper]_vars

\* C23: once destruct has run, the controls hold none of the helper's
\* handlers, and a click the controls raise calls no handler of the helper
\* and leaves the selected collection as it was
C23_DestructUnregisters ==
  (HelperReady /\ helper.destructed) =>
    /\ \A eventName \in EventNames :
         \A i \in DOMAIN controls.eventListeners[eventName] :
           controls.eventListeners[eventName][i] \notin HelperHandlers
    /\ op = "click" => (ret.invoked = <<>> /\ helper.selected = ret.before)

HasIndex(selected, index) == \E i \in DOMAIN selected : selected[i].index = index

\* C29: the selected collection never holds two items of one vertex index;
\* addSelected of an index that is selected leaves the collection as it was
\* and raises 'reselected' and nothing else; without multiSelect the
\* collection never holds more than one item
C29_SelectedDistinct ==
  HelperReady =>
    /\ \A i, j \in DOMAIN helper.selected :
         helper.selected[i].index = helper.selected[j].index => i = j
    /\ (op = "addSelected" /\ HasIndex(ret.before, ret.index)) =>
         (helper.selected = ret.before /\ helper.raised = <<"reselected">>)
    /\ ~helper.multiSelect => Len(helper.selected) <= 1

C29_Witness ==
  /\ HelperReady
  /\ op = "addSelected"
  /\ HasIndex(ret.before, ret.index)
  /\ Len(helper.selected) >= 2
  /\ helper.raised = <<"reselected">>

----------------------------------------------------------------------------
(* The controls alone: the application registers and removes listeners and *)
(* the canvas raises events.                                               *)

\* listeners registered at one time, over all events
MaxListeners == 3

ControlEvents == {"click", "dblclick"}

InitEvents ==
  /\ Construct(1, 1)
  /\ vertices = <<>>
  /\ rootBox = Box(<<0, 0, 0>>, QueryRootRadius)
  /\ raycaster = NewRaycaster
  /\ target = NewTarget(0)
  /\ phase = "new"
  /\ calls = <<>>
  /\ op = "ControlsBase"
  /\ ret = Null
  /\ clone = <<>>
  /\ controls = [eventListeners |-> NoListeners]
  /\ helper = Absent

RECURSIVE SumLen(_, _)
SumLen(listeners, names) ==
  IF names = {} THEN 0
  ELSE LET n == CHOOSE n \in names : TRUE
       IN  Len(listeners[n]) + SumLen(listeners, names \ {n})

AddEventListener ==
  /\ SumLen(controls.eventListeners, EventNames) < MaxListeners
  /\ \E eventName \in ControlEvents, callback \in Callbacks :
       controls' = [controls EXCEPT !.eventListeners = addEventListener(@, eventName, callback)]
  /\ op' = "addEventListener"
  /\ ret' = Null
  /\ UNCHANGED <<octreeFrame, helper>>

RemoveEventListener ==
  /\ \E eventName \in ControlEvents, callback \in Callbacks :
       controls' = [controls EXCEPT !.eventListeners = removeEventListener(@, eventName, callback)]
  /\ op' = "removeEventListener"
  /\ ret' = Null
  /\ UNCHANGED <<octreeFrame, helper>>

RaiseEvent ==
  /\ \E eventName \in ControlEvents :
       LET st == raiseEvent(controls.eventListeners, helper, eventName, [visible |-> TRUE])
       IN  /\ SumLen(st.listeners, EventNames) <= MaxListeners
           /\ controls' = [controls EXCEPT !.eventListeners = st.listeners]
           /\ ret' = [eventName |-> eventName, atStart |-> controls.eventListeners[eventName],
                      invoked |-> st.invoked]
  /\ op' = "raiseEvent"
  /\ UNCHANGED <<octreeFrame, helper>>

NextEvents == AddEventListener \/ RemoveEventListener \/ RaiseEvent

SpecEvents == InitEvents /\ [][NextEvents]_vars

\* C30: raiseEvent calls the listeners that were registered for the event
\* when the dispatch started, each once and in registration order, whatever
\* the listeners do to the registrations meanwhile; listeners registered
\* during the dispatch, if called at all, come after them
C30_DispatchSnapshot ==
  op = "raiseEvent" =>
    /\ Len(ret.atStart) <= Len(ret.invoked)
    /\ SubSeq(ret.invoked, 1, Len(ret.atStart)) = ret.atStart

----------------------------------------------------------------------------
(* raySearch on trees of every depth.  The rays run along the z axis: one  *)
(* along the edge of the root box where the sites cluster, one through the *)
(* far sites, one past the box.                                            *)

DeepRays ==
  { [source |-> <<-RootRadius, -RootRadius, -2 * RootRadius>>, direction |-> <<0, 0, 1>>],
    [source |-> <<512 * Unit, 512 * Unit, -2 * RootRadius>>, direction |-> <<0, 0, 1>>],
    [source |-> <<3 * RootRadius, 0, 0>>, direction |-> <<0, 0, 1>>] }

\* the location codes whose box the condition callback of raySearch accepts
RayPass(boxes, ray, rc) ==
  {c \in DOMAIN boxes :
     cylinderTest(boxes[c], ray.source, InverseDir(ray.direction), rc.far, rc.threshold)}

RaySearch ==
  /\ TreeReady
  /\ \E ray \in DeepRays :
       ret' = [ray |-> ray,
               thrown |-> traverseIf(aabbs, RayPass(aabbs, ray, raycaster)).thrown,
               result |-> raySearch(points, aabbs, ray, raycaster)]
  /\ op' = "raySearch"
  /\ UNCHANGED queryFrame

NextRaySearch == Build \/ RaySearch

SpecRaySearch == Init /\ [][NextRaySearch]_vars

IsProperPrefix(s, t) == Len(s) < Len(t) /\ SubSeq(t, 1, Len(s)) = s

\* the build calls of the nodes between the root and the node of call k
AncestorsBelowRoot(k) ==
  {j \in DOMAIN calls : calls[j].path # <<>> /\ IsProperPrefix(calls[j].path, calls[k].path)}

\* the leaves below the root that the ray reaches: the cylinder test passes
\* on the box of the leaf and of every node between it and the root
SurvivingLeaves(pass) ==
  {c \in LeafCodes(points) \ {1} :
     /\ c \in pass
     /\ \E k \in DOMAIN calls :
          /\ calls[k].locCode = c
          /\ \A j \in AncestorsBelowRoot(k) : calls[j].locCode \in pass}

EntriesOf(locCode) ==
  {[index |-> points[locCode][i], locCode |-> locCode] : i \in DOMAIN points[locCode]}

\* C24: raySearch returns one entry per point of the root and one per point
\* of every leaf below the root that the ray reaches, and no point twice
C24_RaySearchExact ==
  op = "raySearch" =>
    /\ ~ret.thrown
    /\ Range(ret.result)
         = (IF points[1] # Null THEN EntriesOf(1) ELSE {})
           \cup UNION {EntriesOf(c) : c \in SurvivingLeaves(RayPass(aabbs, ret.ray, raycaster))}
    /\ \A i, j \in DOMAIN ret.result : ret.result[i].index = ret.result[j].index => i = j

----------------------------------------------------------------------------
(* Points that all share one position *)

AllSame(verts) == \A i, j \in DOMAIN verts : verts[i] = verts[j]

\* C26: build returns for every input; more than threshold points at one
\* position make one build call per depth from the root down to maxDepth,
\* each handed all the points, and the last one stores them all in its leaf
C26_BuildTerminates ==
  op = "build" =>
    /\ phase = "built"
    /\ (Len(vertices) > threshold /\ AllSame(vertices)) =>
         /\ Len(calls) = maxDepth + 1
         /\ \A k \in DOMAIN calls :
              Len(calls[k].path) = k - 1 /\ calls[k].n = Len(vertices)
         /\ points[calls[Len(calls)].locCode] = Iota(Len(vertices))

----------------------------------------------------------------------------
(* Points and the boxes of their nodes *)

InBox(aabb, p) == \A axis \in 1..3 : BoxMin(aabb, axis) <= p[axis] /\ p[axis] <= BoxMax(aabb, axis)

\* C27: the root box encloses every vertex, and after build every point a
\* node stores lies inside the box of that node, faces included
C27_PointsInsideBoxes ==
  (op = "build" /\ phase = "built"
     /\ \A i \in DOMAIN vertices : InBox(rootBox, vertices[i])) =>
    \A c \in LeafCodes(points) :
      \A i \in DOMAIN points[c] : InBox(aabbs[c], Position(vertices, points[c][i]))

\* a point on the centre of its parent's box, stored two levels below the root
C27_Witness ==
  /\ op = "build"
  /\ phase = "built"
  /\ \E c \in LeafCodes(points) :
       /\ c >= 64
       /\ \E i \in DOMAIN points[c] :
            \A axis \in 1..3 : Position(vertices, points[c][i])[axis] = BoxMin(aabbs[c], axis)

\* the location codes of the nodes the latest build made
LatestCodes == {calls[k].locCode : k \in DOMAIN calls}

\* C28: after a further build on the same instance the box map and the
\* point map hold the nodes of that build and no others: getLocCodes names
\* no other node and traverse visits none
C28_OnlyLatestTree ==
  (op = "rebuild" /\ phase = "built") =>
    /\ DOMAIN aabbs = LatestCodes
    /\ DOMAIN points = LatestCodes
    /\ Range(traverse(aabbs).visited) \subseteq LatestCodes

Next == Build \/ Traverse

Spec == Init /\ [][Next]_vars

====
